---------------------------- MODULE Spec2Model ----------------------------
(***************************************************************************)
(* A model of the backtesting core of Algorithmic_Trading_Backtester:      *)
(*   strategies/*.py       signal generation                               *)
(*   backtester/portfolio.py  the Portfolio ledger and its Trade records   *)
(*   backtester/engine.py     Backtester.run, the per-bar fold             *)
(*   backtester/metrics.py    PerformanceMetrics                           *)
(*                                                                         *)
(* Money, prices and share counts are Python floats in the source.  They   *)
(* are modelled as exact rationals <<n, d>> (d > 0, lowest terms), so an   *)
(* equality the model finds violated is violated by a margin that no       *)
(* floating-point rounding explains.  A date is the 1-based index of its   *)
(* bar in the series; None is 0.                                           *)
(***************************************************************************)
EXTENDS Integers, Sequences, FiniteSets, TLC

VARIABLES
    pc,               \* position of Backtester.run / mode of the ledger driver
    data,             \* Backtester.data['Close'], one price per bar
    strategy,         \* the BaseStrategy handed to run()
    df_signal,        \* df['signal'] as returned by strategy.generate_signals
    i,                \* index of the next bar of `for date, row in df.iterrows()`
                      \* (in SpecLedger: the number of ledger calls made)
    self,             \* the Backtester: capital, commission, slippage, results
    portfolio,        \* the Portfolio of the run
    last,             \* the last ledger call and the value it returned
    opened,           \* how many times _open_long returned True
    metrics,          \* the PerformanceMetrics built by run(), or NoMetrics
    caller            \* the code calling the Backtester: the public calls in
                      \* progress and what the last one returned (SpecBenchmark)

vars == <<pc, data, strategy, df_signal, i, self, portfolio, last, opened, metrics,
          caller>>

-----------------------------------------------------------------------------
(* Bounds of the model *)

MaxBars == 3        \* bars of a run
MaxCalls == 3       \* calls of a free sequence of calls (ledger, Backtester)
MaxSeries == 5      \* bars of a series given to a strategy alone
MaxPeriod == 2      \* RSI period

(* Program constants *)

None == 0
DEFAULT_INITIAL_CAPITAL == 10000
DEFAULT_OVERBOUGHT == 70
DEFAULT_OVERSOLD == 30

-----------------------------------------------------------------------------
(* Exact rational arithmetic standing for Python float arithmetic *)

Abs(x) == IF x < 0 THEN -x ELSE x

RECURSIVE GCD(_, _)
GCD(a, b) == IF b = 0 THEN a ELSE GCD(b, a % b)

LCM(a, b) == (a \div GCD(a, b)) * b

Norm(n, d) == LET g == GCD(Abs(n), d) IN <<n \div g, d \div g>>

R(n) == <<n, 1>>
Zero == R(0)
Frac(n, d) == Norm(n, d)

RAdd(a, b) ==
    LET l == LCM(a[2], b[2])
    IN Norm(a[1] * (l \div a[2]) + b[1] * (l \div b[2]), l)

RNeg(a) == <<-a[1], a[2]>>
RSub(a, b) == RAdd(a, RNeg(b))

RMul(a, b) ==
    LET g1 == GCD(Abs(a[1]), b[2])
        g2 == GCD(Abs(b[1]), a[2])
    IN IF a[1] = 0 \/ b[1] = 0 THEN Zero
       ELSE <<(a[1] \div g1) * (b[1] \div g2), (a[2] \div g2) * (b[2] \div g1)>>

RInv(a) == IF a[1] > 0 THEN <<a[2], a[1]>> ELSE <<-a[2], -a[1]>>
RDiv(a, b) == RMul(a, RInv(b))

RLt(a, b) ==
    LET l == LCM(a[2], b[2])
    IN a[1] * (l \div a[2]) < b[1] * (l \div b[2])

RLe(a, b) == a = b \/ RLt(a, b)
RPos(a) == a[1] > 0
RIsZero(a) == a[1] = 0

RECURSIVE RSum(_)
RSum(s) == IF s = <<>> THEN Zero ELSE RAdd(Head(s), RSum(Tail(s)))

\* |a - b| <= tol
RNear(a, b, tol) == RLe(RSub(a, b), tol) /\ RLe(RSub(b, a), tol)

Sign(s) == IF s > 0 THEN 1 ELSE IF s < 0 THEN -1 ELSE 0

-----------------------------------------------------------------------------
(* backtester/portfolio.py *)

\* Mutant of Trade.__post_init__: pnl leaves the commission out
TradeGrossPnl(entry_date, exit_date, entry_price, exit_price, shares, direction, commission) ==
    LET pnl == IF direction = "long"
               THEN RMul(RSub(exit_price, entry_price), shares)
               ELSE RMul(RSub(entry_price, exit_price), shares)
        cost_basis == RMul(entry_price, shares)
    IN [entry_date |-> entry_date, exit_date |-> exit_date,
        entry_price |-> entry_price, exit_price |-> exit_price,
        shares |-> shares, direction |-> direction,
        pnl |-> pnl,
        return_pct |-> IF RPos(cost_basis)
                       THEN RMul(RDiv(pnl, cost_basis), R(100))
                       ELSE Zero,
        commission |-> commission]

\* Trade.__post_init__: pnl and return_pct are derived from the other fields.
Trade(entry_date, exit_date, entry_price, exit_price, shares, direction, commission) ==
    LET pnl == IF direction = "long"
               THEN RSub(RMul(RSub(exit_price, entry_price), shares), commission)
               ELSE RSub(RMul(RSub(entry_price, exit_price), shares), commission)
        cost_basis == RMul(entry_price, shares)
    IN [entry_date |-> entry_date, exit_date |-> exit_date,
        entry_price |-> entry_price, exit_price |-> exit_price,
        shares |-> shares, direction |-> direction,
        pnl |-> pnl,
        return_pct |-> IF RPos(cost_basis)
                       THEN RMul(RDiv(pnl, cost_basis), R(100))
                       ELSE Zero,
        commission |-> commission]

\* Portfolio.__init__
Portfolio(initial_capital, commission, slippage) ==
    [initial_capital |-> initial_capital,
     current_capital |-> initial_capital,
     commission_rate |-> commission,
     slippage_rate |-> slippage,
     position |-> Zero,
     position_entry_price |-> Zero,
     position_entry_date |-> None,
     equity_curve |-> <<>>,
     dates |-> <<>>,
     trades |-> <<>>,
     total_commission_paid |-> Zero]

\* Portfolio.get_equity
GetEquity(p, current_price) ==
    RAdd(p.current_capital, RMul(p.position, current_price))

\* Portfolio.update_equity_curve
UpdateEquityCurve(p, date, price) ==
    [p EXCEPT !.dates = Append(@, date),
              !.equity_curve = Append(@, GetEquity(p, price))]

\* Mutant of _open_long: the shares are bought with all the cash, the
\* commission is only booked
OpenLongAllCash(p, date, price) ==
    LET commission == RMul(p.current_capital, p.commission_rate)
        available == RSub(p.current_capital, commission)
    IN IF ~RPos(p.current_capital) THEN [p |-> p, ret |-> FALSE]
       ELSE IF ~RPos(available) THEN [p |-> p, ret |-> FALSE]
       ELSE [p |-> [p EXCEPT !.position = RDiv(p.current_capital, price),
                             !.position_entry_price = price,
                             !.position_entry_date = date,
                             !.current_capital = Zero,
                             !.total_commission_paid = RAdd(@, commission)],
             ret |-> TRUE]

\* Mutant of _open_long: the entry date is never recorded
OpenLongNoEntryDate(p, date, price) ==
    LET commission == RMul(p.current_capital, p.commission_rate)
        available == RSub(p.current_capital, commission)
    IN IF ~RPos(p.current_capital) \/ ~RPos(available) THEN [p |-> p, ret |-> FALSE]
       ELSE [p |-> [p EXCEPT !.position = RDiv(available, price),
                             !.position_entry_price = price,
                             !.current_capital = Zero,
                             !.total_commission_paid = RAdd(@, commission)],
             ret |-> TRUE]

\* Portfolio._open_long: the ledger after the call and the value returned
OpenLong(p, date, price) ==
    LET commission == RMul(p.current_capital, p.commission_rate)
        available == RSub(p.current_capital, commission)
    IN IF ~RPos(p.current_capital) THEN [p |-> p, ret |-> FALSE]
       ELSE IF ~RPos(available) THEN [p |-> p, ret |-> FALSE]
       ELSE [p |-> [p EXCEPT !.position = RDiv(available, price),
                             !.position_entry_price = price,
                             !.position_entry_date = date,
                             !.current_capital = Zero,
                             !.total_commission_paid = RAdd(@, commission)],
             ret |-> TRUE]

\* Mutant of _close_long: the entry fields are not cleared
CloseLongKeepsEntry(p, date, price) ==
    LET proceeds == RMul(p.position, price)
        commission == RMul(proceeds, p.commission_rate)
        net_proceeds == RSub(proceeds, commission)
        trade == Trade(p.position_entry_date, date, p.position_entry_price,
                       price, p.position, "long", commission)
    IN IF RIsZero(p.position) THEN [p |-> p, ret |-> FALSE]
       ELSE [p |-> [p EXCEPT !.trades = Append(@, trade),
                             !.current_capital = net_proceeds,
                             !.total_commission_paid = RAdd(@, commission),
                             !.position = Zero],
             ret |-> TRUE]

\* Mutant of _close_long: the exit commission is charged but not added to
\* total_commission_paid
CloseLongCommissionUnbooked(p, date, price) ==
    LET proceeds == RMul(p.position, price)
        commission == RMul(proceeds, p.commission_rate)
        net_proceeds == RSub(proceeds, commission)
        trade == Trade(p.position_entry_date, date, p.position_entry_price,
                       price, p.position, "long", commission)
    IN IF RIsZero(p.position) THEN [p |-> p, ret |-> FALSE]
       ELSE [p |-> [p EXCEPT !.trades = Append(@, trade),
                             !.current_capital = net_proceeds,
                             !.position = Zero,
                             !.position_entry_price = Zero,
                             !.position_entry_date = None],
             ret |-> TRUE]

\* Portfolio._close_long
CloseLong(p, date, price) ==
    LET proceeds == RMul(p.position, price)
        commission == RMul(proceeds, p.commission_rate)
        net_proceeds == RSub(proceeds, commission)
        trade == Trade(p.position_entry_date, date, p.position_entry_price,
                       price, p.position, "long", commission)
    IN IF RIsZero(p.position) THEN [p |-> p, ret |-> FALSE]
       ELSE [p |-> [p EXCEPT !.trades = Append(@, trade),
                             !.current_capital = net_proceeds,
                             !.total_commission_paid = RAdd(@, commission),
                             !.position = Zero,
                             !.position_entry_price = Zero,
                             !.position_entry_date = None],
             ret |-> TRUE]

\* Mutant of execute_trade: no early return on Hold, and the Buy test is
\* `signal >= 0`
ExecuteTradeHoldBuys(p, date, price, signal) ==
    LET effective_price ==
            RMul(price, RAdd(R(1), RMul(p.slippage_rate, R(Sign(signal)))))
    IN IF signal >= 0 /\ RIsZero(p.position)
            THEN OpenLong(p, date, effective_price)
       ELSE IF signal = -1 /\ RPos(p.position)
            THEN CloseLong(p, date, effective_price)
       ELSE [p |-> p, ret |-> FALSE]

\* Mutant of execute_trade: no early return on Hold, and the Sell test is
\* `signal <= 0`
ExecuteTradeHoldSells(p, date, price, signal) ==
    LET effective_price ==
            RMul(price, RAdd(R(1), RMul(p.slippage_rate, R(Sign(signal)))))
    IN IF signal = 1 /\ RIsZero(p.position)
            THEN OpenLong(p, date, effective_price)
       ELSE IF signal <= 0 /\ RPos(p.position)
            THEN CloseLong(p, date, effective_price)
       ELSE [p |-> p, ret |-> FALSE]

\* Portfolio.execute_trade
ExecuteTrade(p, date, price, signal) ==
    LET effective_price ==
            RMul(price, RAdd(R(1), RMul(p.slippage_rate, R(Sign(signal)))))
    IN IF signal = 0 THEN [p |-> p, ret |-> FALSE]
       ELSE IF signal = 1 /\ RIsZero(p.position)
            THEN OpenLong(p, date, effective_price)
       ELSE IF signal = -1 /\ RPos(p.position)
            THEN CloseLong(p, date, effective_price)
       ELSE [p |-> p, ret |-> FALSE]

\* round(x, ndigits): to the nearest multiple of 10^-ndigits, a tie going to
\* the even one
Round(x, ndigits) ==
    LET scale == 10 ^ ndigits
        y == RMul(x, R(scale))
        fl == y[1] \div y[2]
        twice == 2 * (y[1] - fl * y[2])
        q == IF twice < y[2] THEN fl
             ELSE IF twice > y[2] THEN fl + 1
             ELSE IF fl % 2 = 0 THEN fl ELSE fl + 1
    IN Frac(q, scale)

\* Portfolio.get_trades_df: one row per trade, the numbers rounded
GetTradesDf(p) ==
    [k \in 1..Len(p.trades) |->
        LET t == p.trades[k]
        IN [entry_date |-> t.entry_date,
            exit_date |-> t.exit_date,
            entry_price |-> Round(t.entry_price, 2),
            exit_price |-> Round(t.exit_price, 2),
            shares |-> Round(t.shares, 4),
            direction |-> t.direction,
            pnl |-> Round(t.pnl, 2),
            return_pct |-> Round(t.return_pct, 2),
            commission |-> Round(t.commission, 2)]]

\* Portfolio.get_equity_curve_df: the 'equity' column
GetEquityCurveDf(p) ==
    IF p.dates = <<>> THEN <<p.initial_capital>> ELSE p.equity_curve

-----------------------------------------------------------------------------
(* strategies/*.py.  A generated signal column is a sequence aligned with   *)
(* the bars; an indicator value that pandas leaves NaN is the value NaN.    *)

NaN == <<0, 0>>

RECURSIVE RPow(_, _)
RPow(a, k) == IF k = 0 THEN R(1) ELSE RMul(a, RPow(a, k - 1))

\* Series.diff() of Close at bar t: NaN on the first bar
Delta(close, t) == IF t = 1 THEN NaN ELSE R(close[t] - close[t - 1])

\* delta.clip(lower=0) and -delta.clip(upper=0)
Gain(close, t) ==
    IF Delta(close, t) = NaN THEN NaN
    ELSE IF RPos(Delta(close, t)) THEN Delta(close, t) ELSE Zero
Loss(close, t) ==
    IF Delta(close, t) = NaN THEN NaN
    ELSE IF RPos(Delta(close, t)) THEN Zero ELSE RNeg(Delta(close, t))

\* Mutant of ewm(com=period - 1, min_periods=period).mean(): min_periods=1
EwmMeanMinPeriodsOne(x, t, period) ==
    LET w == Frac(period - 1, period)
        num == RSum([k \in 1..(t - 1) |-> RMul(RPow(w, t - (k + 1)), x[k + 1])])
        den == RSum([k \in 1..(t - 1) |-> RPow(w, t - (k + 1))])
    IN IF t < 2 THEN NaN ELSE RDiv(num, den)

\* Series.ewm(com=period-1, min_periods=period).mean() at bar t, for a series
\* x whose only NaN is at bar 1: pandas' default adjust=True weights
\* observation j by (1 - alpha)^(t - j), with alpha = 1/(1 + com) = 1/period,
\* and normalises by the sum of the weights; the value is NaN until `period`
\* observations are in.
EwmMean(x, t, period) ==
    LET w == Frac(period - 1, period)
        obs == 2..t
        num == RSum([k \in 1..(t - 1) |-> RMul(RPow(w, t - (k + 1)), x[k + 1])])
        den == RSum([k \in 1..(t - 1) |-> RPow(w, t - (k + 1))])
    IN IF Cardinality(obs) < period THEN NaN ELSE RDiv(num, den)

\* RSIStrategy.calculate_indicators: df['RSI'] at bar t
RSI(close, t, period) ==
    LET gain == [k \in 1..Len(close) |-> Gain(close, k)]
        loss == [k \in 1..Len(close) |-> Loss(close, k)]
        avg_gain == EwmMean(gain, t, period)
        avg_loss == EwmMean(loss, t, period)
        \* avg_loss.replace(0, np.nan)
        divisor == IF avg_loss = NaN \/ RIsZero(avg_loss) THEN NaN ELSE avg_loss
        rs == IF avg_gain = NaN \/ divisor = NaN THEN NaN ELSE RDiv(avg_gain, divisor)
    IN IF rs = NaN THEN NaN
       ELSE RSub(R(100), RDiv(R(100), RAdd(R(1), rs)))

\* df['in_oversold'], df['in_overbought']: a comparison with NaN is False
InOversold(close, t, st) ==
    RSI(close, t, st.period) # NaN /\ RLt(RSI(close, t, st.period), R(st.oversold))
InOverbought(close, t, st) ==
    RSI(close, t, st.period) # NaN /\ RLt(R(st.overbought), RSI(close, t, st.period))

\* Mutant of RSIStrategy.generate_signals: the signal follows the level
RSISignalByLevel(close, t, st) ==
    IF InOverbought(close, t, st) THEN -1
    ELSE IF InOversold(close, t, st) THEN 1
    ELSE 0

\* RSIStrategy.generate_signals: df['signal'] at bar t.  shift(1).fillna(False)
\* makes the previous value of the first bar False (the filled column is taken
\* as boolean, as pandas 1.x and 2.x make it, so that ~ is logical negation);
\* the -1 assignment is the later one and wins.
RSISignal(close, t, st) ==
    LET prevOversold == t > 1 /\ InOversold(close, t - 1, st)
        prevOverbought == t > 1 /\ InOverbought(close, t - 1, st)
    IN IF InOverbought(close, t, st) /\ ~prevOverbought THEN -1
       ELSE IF InOversold(close, t, st) /\ ~prevOversold THEN 1
       ELSE 0

\* Series.rolling(window).mean() at bar t: NaN until the window is full
RollingMean(close, t, window) ==
    IF t < window THEN NaN
    ELSE RDiv(RSum([k \in 1..window |-> R(close[t - window + k])]), R(window))

\* The square of Series.rolling(window).std() at bar t (the sample variance,
\* ddof = 1): NaN until the window is full, and for a window of one bar
RollingVar(close, t, window) ==
    IF t < window \/ window < 2 THEN NaN
    ELSE LET mean == RollingMean(close, t, window)
             dev(k) == RSub(R(close[t - window + k]), mean)
         IN RDiv(RSum([k \in 1..window |-> RMul(dev(k), dev(k))]), R(window - 1))

\* x > k * sqrt(var) for k >= 0 and var >= 0, without taking the root
ExceedsStd(x, k, var) == RPos(x) /\ RLt(RMul(RMul(k, k), var), RMul(x, x))

\* MovingAverageCrossover.generate_signals: df['position'] at bar t, 0 where
\* either moving average is NaN
MAPosition(close, t, st) ==
    LET MA_short == RollingMean(close, t, st.short_window)
        MA_long == RollingMean(close, t, st.long_window)
        valid == MA_long # NaN /\ MA_short # NaN
    IN IF valid /\ RLt(MA_long, MA_short) THEN 1 ELSE 0

\* Mutant of MovingAverageCrossover.generate_signals: the signal is the
\* position itself, not its change
MASignalByPosition(close, t, st) == MAPosition(close, t, st)

\* MovingAverageCrossover.generate_signals: df['position'].diff().fillna(0)
MASignal(close, t, st) ==
    IF t = 1 THEN 0 ELSE MAPosition(close, t, st) - MAPosition(close, t - 1, st)

\* BollingerBandsStrategy: df['Close'] < df['BB_lower'], False where the band
\* is NaN
BelowLowerBand(close, t, st) ==
    LET mid == RollingMean(close, t, st.period)
        var == RollingVar(close, t, st.period)
    IN mid # NaN /\ var # NaN /\ ExceedsStd(RSub(mid, R(close[t])), st.num_std, var)

\* BollingerBandsStrategy: df['Close'] > df['BB_upper']
AboveUpperBand(close, t, st) ==
    LET mid == RollingMean(close, t, st.period)
        var == RollingVar(close, t, st.period)
    IN mid # NaN /\ var # NaN /\ ExceedsStd(RSub(R(close[t]), mid), st.num_std, var)

\* Mutant of BollingerBandsStrategy.generate_signals: only the first bar
\* outside a band signals
BollingerSignalOnEntry(close, t, st) ==
    IF AboveUpperBand(close, t, st) /\ ~(t > 1 /\ AboveUpperBand(close, t - 1, st))
    THEN -1
    ELSE IF BelowLowerBand(close, t, st)
                /\ ~(t > 1 /\ BelowLowerBand(close, t - 1, st))
    THEN 1
    ELSE 0

\* BollingerBandsStrategy.generate_signals: the -1 assignment is the later one
BollingerSignal(close, t, st) ==
    IF AboveUpperBand(close, t, st) THEN -1
    ELSE IF BelowLowerBand(close, t, st) THEN 1
    ELSE 0

\* MeanReversionStrategy: df['zscore'] < -entry_threshold, where zscore is
\* (Close - rolling_mean) / rolling_std.replace(0, np.nan)
ZScoreBelow(close, t, st) ==
    LET mean == RollingMean(close, t, st.lookback_period)
        var == RollingVar(close, t, st.lookback_period)
    IN /\ mean # NaN /\ var # NaN /\ ~RIsZero(var)
       /\ ExceedsStd(RSub(mean, R(close[t])), st.entry_threshold, var)

\* MeanReversionStrategy: df['zscore'] > entry_threshold
ZScoreAbove(close, t, st) ==
    LET mean == RollingMean(close, t, st.lookback_period)
        var == RollingVar(close, t, st.lookback_period)
    IN /\ mean # NaN /\ var # NaN /\ ~RIsZero(var)
       /\ ExceedsStd(RSub(R(close[t]), mean), st.entry_threshold, var)

\* MeanReversionStrategy.generate_signals
MeanReversionSignal(close, t, st) ==
    IF ZScoreAbove(close, t, st) THEN -1
    ELSE IF ZScoreBelow(close, t, st) THEN 1
    ELSE 0

\* Series.ewm(span=span, adjust=False).mean() at bar t of a series x without
\* NaN: y[1] = x[1], y[t] = (1 - alpha) * y[t-1] + alpha * x[t], alpha = 2/(span+1)
RECURSIVE Ema(_, _, _)
Ema(x, t, span) ==
    LET alpha == Frac(2, span + 1)
    IN IF t = 1 THEN x[1]
       ELSE RAdd(RMul(RSub(R(1), alpha), Ema(x, t - 1, span)), RMul(alpha, x[t]))

\* MACDStrategy.calculate_indicators: df['MACD'] up to bar n
MACDLine(close, n, st) ==
    LET x == [k \in 1..n |-> R(close[k])]
    IN [k \in 1..n |-> RSub(Ema(x, k, st.fast_period), Ema(x, k, st.slow_period))]

\* MACDStrategy.generate_signals: df['position'] at bar t
MACDPosition(close, t, st) ==
    LET macd == MACDLine(close, t, st)
        MACD_signal == Ema(macd, t, st.signal_period)
    IN IF RLt(MACD_signal, macd[t]) THEN 1 ELSE 0

\* MACDStrategy.generate_signals: df['position'].diff().fillna(0)
MACDSignal(close, t, st) ==
    IF t = 1 THEN 0 ELSE MACDPosition(close, t, st) - MACDPosition(close, t - 1, st)

\* Mutant of BuyAndHoldStrategy.generate_signals: the buy is on the last bar
BuyAndHoldSignalsLastBar(close) ==
    IF close = <<>> THEN [raised |-> TRUE, signal |-> <<>>]
    ELSE [raised |-> FALSE,
          signal |-> [t \in 1..Len(close) |-> IF t = Len(close) THEN 1 ELSE 0]]

\* BuyAndHoldStrategy.generate_signals: df.index[0] raises IndexError on an
\* empty frame.
BuyAndHoldSignals(close) ==
    IF close = <<>> THEN [raised |-> TRUE, signal |-> <<>>]
    ELSE [raised |-> FALSE,
          signal |-> [t \in 1..Len(close) |-> IF t = 1 THEN 1 ELSE 0]]

\* strategy.generate_signals(self.data): the 'signal' column, or an exception.
\* A "Given" strategy is a BaseStrategy subclass that returns the frame with a
\* signal column of its own making (1 = buy, -1 = sell, 0 = hold).
GenerateSignals(st, close) ==
    CASE st.kind = "Given" -> [raised |-> FALSE, signal |-> st.signals]
      [] st.kind = "BuyAndHold" -> BuyAndHoldSignals(close)
      [] st.kind = "RSI" ->
            [raised |-> FALSE,
             signal |-> [t \in 1..Len(close) |-> RSISignal(close, t, st)]]
      [] st.kind = "MA" ->
            [raised |-> FALSE,
             signal |-> [t \in 1..Len(close) |-> MASignal(close, t, st)]]
      [] st.kind = "Bollinger" ->
            [raised |-> FALSE,
             signal |-> [t \in 1..Len(close) |-> BollingerSignal(close, t, st)]]
      [] st.kind = "MeanReversion" ->
            [raised |-> FALSE,
             signal |-> [t \in 1..Len(close) |-> MeanReversionSignal(close, t, st)]]
      [] st.kind = "MACD" ->
            [raised |-> FALSE,
             signal |-> [t \in 1..Len(close) |-> MACDSignal(close, t, st)]]

\* Mutant of MovingAverageCrossover._validate_params: `>` for `>=`
ParamErrorMAEqualAllowed(st) ==
    \/ st.short_window <= 0 \/ st.long_window <= 0
    \/ st.short_window > st.long_window

\* MovingAverageCrossover._validate_params: TRUE when it raises ValueError
ParamErrorMA(st) ==
    \/ st.short_window <= 0 \/ st.long_window <= 0
    \/ st.short_window >= st.long_window

\* RSIStrategy._validate_params
ParamErrorRSI(st) ==
    \/ st.period <= 0
    \/ ~(0 < st.oversold /\ st.oversold < st.overbought /\ st.overbought < 100)

\* MACDStrategy._validate_params
ParamErrorMACD(st) ==
    \/ st.fast_period <= 0 \/ st.slow_period <= 0 \/ st.signal_period <= 0
    \/ st.fast_period >= st.slow_period

\* BollingerBandsStrategy._validate_params
ParamErrorBollinger(st) ==
    \/ st.period <= 0
    \/ RLe(st.num_std, Zero)

\* MeanReversionStrategy._validate_params
ParamErrorMeanReversion(st) ==
    \/ st.lookback_period <= 0
    \/ RLe(st.entry_threshold, Zero)
    \/ RLt(st.exit_threshold, Zero)

\* The constructor of each strategy: it stores its arguments and then calls
\* self._validate_params(); TRUE when the constructor raises ValueError.
\* BaseStrategy._validate_params (Buy-and-Hold, user strategies) passes.
ConstructorRaises(st) ==
    CASE st.kind = "MA" -> ParamErrorMA(st)
      [] st.kind = "RSI" -> ParamErrorRSI(st)
      [] st.kind = "MACD" -> ParamErrorMACD(st)
      [] st.kind = "Bollinger" -> ParamErrorBollinger(st)
      [] st.kind = "MeanReversion" -> ParamErrorMeanReversion(st)
      [] OTHER -> FALSE

-----------------------------------------------------------------------------
(* backtester/metrics.py *)

\* PerformanceMetrics._total_return
TotalReturn(equity) ==
    IF Len(equity) < 2 THEN Zero
    ELSE LET initial == equity[1]
             final == equity[Len(equity)]
         IN IF RPos(initial)
            THEN RMul(RDiv(RSub(final, initial), initial), R(100))
            ELSE Zero

\* Values the code computes with sqrt or a fractional power are kept by class:
\* "zero", "positive", "negative", "finite" (non-NaN, sign not tracked), "nan".

\* PerformanceMetrics._annualized_return; the index of a curve with two or
\* more points is the bars' dates, strictly increasing, so years > 0
AnnualizedReturn(equity) ==
    IF Len(equity) < 2 THEN "zero"
    ELSE LET initial == equity[1]
             final == equity[Len(equity)]
         IN IF ~RPos(initial) THEN "zero"
            ELSE IF final = initial THEN "zero"
            ELSE IF RLt(initial, final) THEN "positive"
            ELSE "negative"

\* equity.pct_change().dropna(): the first row is the one dropped (every
\* equity point is positive)
PctChange(equity) ==
    [t \in 1..(Len(equity) - 1) |->
        RDiv(RSub(equity[t + 1], equity[t]), equity[t])]

\* returns.std(), the sample deviation (ddof = 1): NaN with fewer than two
\* returns, 0 when they are all equal
Std(returns) ==
    IF Len(returns) < 2 THEN "nan"
    ELSE IF \A t \in 1..Len(returns) : returns[t] = returns[1] THEN "zero"
    ELSE "positive"

\* PerformanceMetrics._volatility: std * sqrt(252) * 100, no test of std
Volatility(equity) ==
    IF Len(equity) < 2 THEN "zero" ELSE Std(PctChange(equity))

\* PerformanceMetrics._sharpe: `returns.std() == 0` is False for NaN, and
\* excess.mean() / NaN is NaN
Sharpe(equity) ==
    IF Len(equity) < 2 THEN "zero"
    ELSE LET std == Std(PctChange(equity))
         IN IF std = "zero" THEN "zero"
            ELSE IF std = "nan" THEN "nan"
            ELSE "finite"

\* equity.expanding().max() at row t
RECURSIVE CumMax(_, _)
CumMax(equity, t) ==
    IF t = 1 THEN equity[1]
    ELSE LET m == CumMax(equity, t - 1)
         IN IF RLt(m, equity[t]) THEN equity[t] ELSE m

\* dd = (equity - cummax) / cummax * 100 at row t
Drawdown(equity, t) ==
    RMul(RDiv(RSub(equity[t], CumMax(equity, t)), CumMax(equity, t)), R(100))

\* PerformanceMetrics._max_drawdown: dd.min()
MaxDrawdown(equity) ==
    IF equity = <<>> THEN Zero
    ELSE LET dd == {Drawdown(equity, t) : t \in 1..Len(equity)}
         IN CHOOSE m \in dd : \A d \in dd : RLe(m, d)

\* Mutant of the loop of _max_dd_duration: a drawdown still open at the last
\* row is not counted
RECURSIVE DdPeriodsClosedOnly(_, _, _, _)
DdPeriodsClosedOnly(equity, k, start, best) ==
    LET Max(a, b) == IF a > b THEN a ELSE b
    IN IF k > Len(equity) THEN best
       ELSE LET v == RLt(equity[k], CumMax(equity, k))
            IN IF v /\ start = None THEN DdPeriodsClosedOnly(equity, k + 1, k, best)
               ELSE IF ~v /\ start # None
                    THEN DdPeriodsClosedOnly(equity, k + 1, None, Max(best, k - start))
               ELSE DdPeriodsClosedOnly(equity, k + 1, start, best)

\* the loop of _max_dd_duration from row k (1-based) on: start is the row a
\* drawdown began at (None outside one), best the longest period so far
RECURSIVE DdPeriods(_, _, _, _)
DdPeriods(equity, k, start, best) ==
    LET Max(a, b) == IF a > b THEN a ELSE b
    IN IF k > Len(equity)
       THEN IF start # None THEN Max(best, Len(equity) + 1 - start) ELSE best
       ELSE LET v == RLt(equity[k], CumMax(equity, k))
            IN IF v /\ start = None THEN DdPeriods(equity, k + 1, k, best)
               ELSE IF ~v /\ start # None
                    THEN DdPeriods(equity, k + 1, None, Max(best, k - start))
               ELSE DdPeriods(equity, k + 1, start, best)

\* PerformanceMetrics._max_dd_duration
MaxDdDuration(equity) ==
    IF equity = <<>> THEN 0 ELSE DdPeriods(equity, 1, None, 0)

\* PerformanceMetrics._win_rate
WinRate(trades) ==
    IF trades = <<>> THEN Zero
    ELSE Frac(100 * Cardinality({k \in 1..Len(trades) : RPos(trades[k].pnl)}),
              Len(trades))

\* float('inf')
Inf == <<1, 0>>

\* trades[trades['pnl'] > 0]['pnl'].sum()
GrossProfit(trades) ==
    RSum([k \in 1..Len(trades) |->
            IF RPos(trades[k].pnl) THEN trades[k].pnl ELSE Zero])

\* abs(trades[trades['pnl'] < 0]['pnl'].sum())
GrossLoss(trades) ==
    RSum([k \in 1..Len(trades) |->
            IF RLt(trades[k].pnl, Zero) THEN RNeg(trades[k].pnl) ELSE Zero])

\* Mutant of PerformanceMetrics._profit_factor: 0 whenever gross_loss == 0
ProfitFactorZeroWithoutLoss(trades) ==
    IF trades = <<>> THEN Zero
    ELSE IF RIsZero(GrossLoss(trades)) THEN Zero
    ELSE RDiv(GrossProfit(trades), GrossLoss(trades))

\* PerformanceMetrics._profit_factor
ProfitFactor(trades) ==
    IF trades = <<>> THEN Zero
    ELSE IF RIsZero(GrossLoss(trades))
         THEN IF RPos(GrossProfit(trades)) THEN Inf ELSE Zero
    ELSE RDiv(GrossProfit(trades), GrossLoss(trades))

\* PerformanceMetrics._avg_trade_return
AvgTradeReturn(trades) ==
    IF trades = <<>> THEN Zero
    ELSE RDiv(RSum([k \in 1..Len(trades) |-> trades[k].return_pct]),
              R(Len(trades)))

\* PerformanceMetrics.__init__ / _calculate_metrics
PerformanceMetrics(equity_curve, trades, initial_capital) ==
    [equity_curve |-> equity_curve,
     trades |-> trades,
     initial_capital |-> initial_capital,
     total_return |-> TotalReturn(equity_curve),
     annualized_return |-> AnnualizedReturn(equity_curve),
     volatility |-> Volatility(equity_curve),
     sharpe_ratio |-> Sharpe(equity_curve),
     max_drawdown |-> MaxDrawdown(equity_curve),
     max_drawdown_duration |-> MaxDdDuration(equity_curve),
     num_trades |-> Len(trades),
     win_rate |-> WinRate(trades),
     profit_factor |-> ProfitFactor(trades),
     avg_trade_return |-> AvgTradeReturn(trades)]

NoMetrics == [equity_curve |-> <<>>, trades |-> <<>>, initial_capital |-> Zero,
              total_return |-> Zero, annualized_return |-> "zero",
              volatility |-> "zero", sharpe_ratio |-> "zero",
              max_drawdown |-> Zero, max_drawdown_duration |-> 0,
              num_trades |-> -1, win_rate |-> Zero, profit_factor |-> Zero,
              avg_trade_return |-> Zero]

-----------------------------------------------------------------------------
(* The inputs *)

Prices == {1, 2, 3}
Signals == {-1, 0, 1}
SeriesUpTo(n) == UNION {[1..k -> Prices] : k \in 0..n}

\* (commission, slippage) pairs of a Backtester
Rates == {<<Zero, Zero>>, <<Frac(1, 10), Zero>>,
          <<Frac(1, 10), Frac(1, 10)>>, <<R(1), Zero>>}

GivenStrategies(n) == {[kind |-> "Given", signals |-> sg] : sg \in [1..n -> Signals]}
BuyAndHoldStrategy == [kind |-> "BuyAndHold"]
RSIStrategies ==
    {[kind |-> "RSI", period |-> per,
      overbought |-> DEFAULT_OVERBOUGHT, oversold |-> DEFAULT_OVERSOLD] :
        per \in 1..MaxPeriod}

\* Constructor arguments, valid and invalid
PeriodArgs == -1..MaxPeriod
ThresholdArgs == {<<DEFAULT_OVERSOLD, DEFAULT_OVERBOUGHT>>,
                  <<DEFAULT_OVERBOUGHT, DEFAULT_OVERSOLD>>,
                  <<0, DEFAULT_OVERBOUGHT>>, <<DEFAULT_OVERSOLD, 100>>, <<50, 50>>}
StdArgs == {RNeg(Frac(1, 2)), Zero, Frac(1, 2), R(1)}

MARequests ==
    {[kind |-> "MA", short_window |-> sw, long_window |-> lw] :
        sw \in PeriodArgs, lw \in PeriodArgs}
RSIRequests ==
    {[kind |-> "RSI", period |-> per, overbought |-> th[2], oversold |-> th[1]] :
        per \in PeriodArgs, th \in ThresholdArgs}
MACDRequests ==
    {[kind |-> "MACD", fast_period |-> f, slow_period |-> sl, signal_period |-> sg] :
        f \in 0..MaxPeriod, sl \in 0..MaxPeriod, sg \in 0..MaxPeriod}
BollingerRequests ==
    {[kind |-> "Bollinger", period |-> per, num_std |-> k] :
        per \in PeriodArgs, k \in StdArgs}
MeanReversionRequests ==
    {[kind |-> "MeanReversion", lookback_period |-> per,
      entry_threshold |-> k, exit_threshold |-> x] :
        per \in PeriodArgs, k \in StdArgs, x \in {RNeg(Frac(1, 2)), Frac(1, 2)}}

StrategyRequests ==
    MARequests \cup RSIRequests \cup MACDRequests \cup BollingerRequests
        \cup MeanReversionRequests \cup {BuyAndHoldStrategy}

\* The strategies that exist: those whose constructor returned
BuiltStrategies == {st \in StrategyRequests : ~ConstructorRaises(st)}

Backtester(initial_capital, commission, slippage) ==
    [initial_capital |-> initial_capital, commission |-> commission,
     slippage |-> slippage, strategy_results |-> NoMetrics,
     benchmark_results |-> NoMetrics]

\* No public call of the Backtester made or in progress.  stack: the public
\* methods in progress, innermost last; calls: how many were made; op, raised,
\* ret: the last one completed, the exception it raised ("" for none) and the
\* value it returned; runs: how many of the calls were run(strategy);
\* S: what the last run(strategy) returned
NoCaller == [stack |-> <<>>, calls |-> 0, op |-> "none", raised |-> "",
             ret |-> <<>>, runs |-> 0, S |-> NoMetrics]

NoCall == [op |-> "none", date |-> None, price |-> 0, signal |-> 0, ret |-> FALSE]
Call(op, date, price, signal, ret) ==
    [op |-> op, date |-> date, price |-> price, signal |-> signal, ret |-> ret]

\* The 5-bar scenario of the specification's section 8
ScenarioCloses == <<100, 105, 103, 110, 108>>
ScenarioSignals == <<1, 0, 0, -1, 0>>
ScenarioBacktester == Backtester(R(DEFAULT_INITIAL_CAPITAL), Frac(1, 1000), Zero)
IsScenario ==
    /\ data = ScenarioCloses
    /\ strategy = [kind |-> "Given", signals |-> ScenarioSignals]
    /\ self.initial_capital = R(DEFAULT_INITIAL_CAPITAL)
    /\ self.commission = Frac(1, 1000)
    /\ self.slippage = Zero

-----------------------------------------------------------------------------
(* Backtester.run: Init is run() entered with its fresh Portfolio built *)

InitRun(bt, closes, st) ==
    /\ pc = "start"
    /\ self = bt
    /\ data = closes
    /\ strategy = st
    /\ df_signal = <<>>
    /\ i = 1
    /\ portfolio = Portfolio(bt.initial_capital, bt.commission, bt.slippage)
    /\ last = NoCall
    /\ opened = 0
    /\ metrics = NoMetrics
    /\ caller = NoCaller

Init ==
    \/ \E closes \in SeriesUpTo(MaxBars), r \in Rates :
          \E st \in GivenStrategies(Len(closes)) \cup {BuyAndHoldStrategy}
                    \cup RSIStrategies :
              InitRun(Backtester(R(100), r[1], r[2]), closes, st)
    \/ InitRun(ScenarioBacktester, ScenarioCloses,
               [kind |-> "Given", signals |-> ScenarioSignals])

\* df = strategy.generate_signals(self.data)
RunGenerateSignals ==
    /\ pc = "start"
    /\ LET r == GenerateSignals(strategy, data)
       IN /\ pc' = IF r.raised THEN "raised" ELSE "loop"
          /\ df_signal' = r.signal
    /\ UNCHANGED <<data, strategy, i, self, portfolio, last, opened, metrics, caller>>

\* one iteration of `for date, row in df.iterrows()`
RunBar ==
    /\ pc = "loop"
    /\ i <= Len(data)
    /\ LET date == i
           price == R(data[i])
           signal == df_signal[i]
           r == ExecuteTrade(portfolio, date, price, signal)
       IN /\ portfolio' = UpdateEquityCurve(r.p, date, price)
          /\ last' = Call("execute_trade", date, data[i], signal, r.ret)
          /\ opened' = opened + (IF signal = 1 /\ r.ret THEN 1 ELSE 0)
    /\ i' = i + 1
    /\ UNCHANGED <<pc, data, strategy, df_signal, self, metrics, caller>>

\* Mutant of the end of run(): the open position is not closed
RunForceCloseSkipped ==
    /\ pc = "loop"
    /\ i > Len(data)
    /\ pc' = "metrics"
    /\ UNCHANGED <<data, strategy, df_signal, i, self, portfolio, last, opened,
                   metrics, caller>>

\* after the loop: close any open position at the last bar
RunForceClose ==
    /\ pc = "loop"
    /\ i > Len(data)
    /\ IF RPos(portfolio.position)
       THEN LET last_date == Len(data)
                last_price == R(data[Len(data)])
                r == CloseLong(portfolio, last_date, last_price)
            IN /\ portfolio' = r.p
               /\ last' = Call("_close_long", last_date, data[Len(data)], 0, r.ret)
       ELSE UNCHANGED <<portfolio, last>>
    /\ pc' = "metrics"
    /\ UNCHANGED <<data, strategy, df_signal, i, self, opened, metrics, caller>>

\* equity_curve, trades_df, PerformanceMetrics(...), self.strategy_results
RunMetrics ==
    /\ pc = "metrics"
    /\ metrics' = PerformanceMetrics(GetEquityCurveDf(portfolio),
                                     GetTradesDf(portfolio), self.initial_capital)
    /\ self' = [self EXCEPT !.strategy_results = metrics']
    /\ pc' = "done"
    /\ UNCHANGED <<data, strategy, df_signal, i, portfolio, last, opened, caller>>

Next == RunGenerateSignals \/ RunBar \/ RunForceClose \/ RunMetrics

Spec == Init /\ [][Next]_vars

-----------------------------------------------------------------------------
(* Properties of Backtester.run (specification Spec) *)

Last(s) == s[Len(s)]
Returned == pc = "done"
Pnls(trades) == [k \in 1..Len(trades) |-> trades[k].pnl]
Cent == Frac(1, 100)

\* C1: when run() returns, the equity curve handed to PerformanceMetrics has
\* exactly as many points as the bar series has bars (also for an empty and a
\* one-bar series).
C1_EquityCurveLengthIsBarCount ==
    Returned => Len(metrics.equity_curve) = Len(data)

\* C2: conservation law: when run() returns (every position closed, by a Sell
\* or by the forced close), the final point of the equity curve equals
\* initial_capital plus the sum of the pnl of all recorded trades.
C2_FinalEquityIsCapitalPlusPnl ==
    Returned =>
        Last(metrics.equity_curve) =
            RAdd(self.initial_capital, RSum(Pnls(portfolio.trades)))

\* C3: every recorded trade, the one made by the forced close included, has
\* exit_date strictly later than entry_date.
C3_ExitStrictlyAfterEntry ==
    \A k \in 1..Len(portfolio.trades) :
        portfolio.trades[k].exit_date > portfolio.trades[k].entry_date

\* C4: the trade log is ordered by entry_date and trades never overlap: each
\* trade's exit_date is earlier than the entry_date of the trade after it.
C4_TradesDoNotOverlap ==
    \A k \in 1..(Len(portfolio.trades) - 1) :
        /\ portfolio.trades[k].entry_date < portfolio.trades[k + 1].entry_date
        /\ portfolio.trades[k].exit_date < portfolio.trades[k + 1].entry_date

C4_Witness ==
    /\ Returned
    /\ Len(portfolio.trades) = 2
    /\ last.op = "_close_long"

\* C6: once the loop and the forced close are over, no position is open, the
\* trade log has exactly one trade per successful open, and a position that was
\* still open after the final bar was closed on the last bar at its price.
C6_EveryOpenIsOneTrade ==
    pc \in {"metrics", "done"} =>
        /\ RIsZero(portfolio.position)
        /\ Len(portfolio.trades) = opened
        /\ last.op = "_close_long" =>
              /\ Last(portfolio.trades).exit_price = R(Last(data))
              /\ Last(portfolio.trades).exit_date = Len(data)

C6_Witness ==
    /\ Returned
    /\ opened = 2
    /\ Len(portfolio.trades) = 2
    /\ last.op = "_close_long"

\* C7: a run whose signal series is all Hold over a non-empty bar series
\* records no trade, and every equity point equals initial_capital, whatever
\* the prices, the commission rate and the slippage rate.
AllHold ==
    /\ pc \notin {"start", "raised"}
    /\ data # <<>>
    /\ \A t \in 1..Len(df_signal) : df_signal[t] = 0

C7_AllHoldIsFlat ==
    AllHold =>
        /\ portfolio.trades = <<>>
        /\ \A k \in 1..Len(portfolio.equity_curve) :
              portfolio.equity_curve[k] = self.initial_capital
        /\ Returned =>
              /\ metrics.num_trades = 0
              /\ Len(metrics.equity_curve) = Len(data)
              /\ \A k \in 1..Len(metrics.equity_curve) :
                    metrics.equity_curve[k] = self.initial_capital

C7_Witness ==
    /\ Returned
    /\ AllHold
    /\ Len(data) = MaxBars
    /\ data[1] # data[2]
    /\ self.commission # Zero
    /\ self.slippage # Zero

\* C8: in the 5-bar scenario the run records exactly one trade, entered at 100
\* with 99.9 shares and exited at 110 with net cash 10978.011, whose pnl is
\* 978.01 and whose return_pct is 9.79, both to the cent.
C8_ScenarioTrade ==
    (IsScenario /\ Returned) =>
        /\ Len(portfolio.trades) = 1
        /\ portfolio.trades[1].entry_price = R(100)
        /\ portfolio.trades[1].shares = Frac(999, 10)
        /\ portfolio.trades[1].exit_price = R(110)
        /\ portfolio.current_capital = Frac(10978011, 1000)
        /\ RNear(portfolio.trades[1].pnl, Frac(97801, 100), Cent)
        /\ RNear(portfolio.trades[1].return_pct, Frac(979, 100), Cent)

\* C9: in the 5-bar scenario the last equity point is the cash balance, 10978.02
\* to the cent, and total_return is 9.78 to the cent: the return measured
\* against initial_capital.
C9_ScenarioTotalReturn ==
    (IsScenario /\ Returned) =>
        /\ Last(metrics.equity_curve) = portfolio.current_capital
        /\ RNear(Last(metrics.equity_curve), Frac(1097802, 100), Cent)
        /\ RNear(metrics.total_return, Frac(978, 100), Cent)
        /\ metrics.total_return =
              RMul(RSub(RDiv(Last(metrics.equity_curve), self.initial_capital),
                        R(1)), R(100))

\* C12: a run over an empty bar series fails for every strategy; it never
\* returns a result whose equity curve has points that correspond to no bar.
C12_EmptySeriesRunFails ==
    data = <<>> => (pc # "done" /\ metrics.equity_curve = <<>>)

\* The ten metrics of the summary are all zero
AllMetricsZero(m) ==
    /\ m.total_return = Zero
    /\ m.annualized_return = "zero"
    /\ m.volatility = "zero"
    /\ m.sharpe_ratio = "zero"
    /\ m.max_drawdown = Zero
    /\ m.max_drawdown_duration = 0
    /\ m.num_trades = 0
    /\ m.win_rate = Zero
    /\ m.profit_factor = Zero
    /\ m.avg_trade_return = Zero

\* C13: whenever the equity curve given to the metrics calculator is empty or
\* has a single point, every metric of the summary is zero, also for a one-bar
\* run in which a Buy fired and was force-closed.
C13_DegenerateCurveAllZero ==
    (Returned /\ Len(metrics.equity_curve) <= 1) => AllMetricsZero(metrics)

\* C14: for every equity curve (of any length) and trade log no field of the
\* summary is NaN: a return series with zero or undefined standard deviation
\* gives sharpe = 0 and a defined volatility; the only non-finite value allowed
\* is profit_factor = +infinity.
C14_NoNaNInSummary ==
    Returned =>
        /\ metrics.volatility # "nan"
        /\ metrics.sharpe_ratio # "nan"
        /\ metrics.annualized_return # "nan"
        /\ \A x \in {metrics.total_return, metrics.max_drawdown,
                     metrics.win_rate, metrics.avg_trade_return} : x[2] # 0
        /\ (metrics.profit_factor[2] = 0 => metrics.profit_factor = Inf)
        /\ (Std(PctChange(metrics.equity_curve)) \in {"zero", "nan"}
                => metrics.sharpe_ratio = "zero")

\* The winning and the losing trades, and the sum of pnl over a set of trades
Profits(trades) == {k \in 1..Len(trades) : trades[k].pnl[1] > 0}
Losses(trades) == {k \in 1..Len(trades) : trades[k].pnl[1] < 0}
RECURSIVE PnlOver(_, _)
PnlOver(trades, ks) ==
    IF ks = {} THEN Zero
    ELSE LET k == CHOOSE x \in ks : TRUE
         IN RAdd(trades[k].pnl, PnlOver(trades, ks \ {k}))

\* C18: profit_factor is gross_profit / gross_loss when gross_loss > 0,
\* +infinity when gross_loss = 0 and gross_profit > 0, and 0 when both are 0
\* (in particular for an empty trade log).
C18_ProfitFactor ==
    Returned =>
        LET gross_profit == PnlOver(metrics.trades, Profits(metrics.trades))
            gross_loss == RNeg(PnlOver(metrics.trades, Losses(metrics.trades)))
        IN /\ RPos(gross_loss) =>
                metrics.profit_factor = RDiv(gross_profit, gross_loss)
           /\ (RIsZero(gross_loss) /\ RPos(gross_profit)) =>
                metrics.profit_factor = Inf
           /\ (RIsZero(gross_loss) /\ RIsZero(gross_profit)) =>
                metrics.profit_factor = Zero
           /\ metrics.trades = <<>> => metrics.profit_factor = Zero

C18_Witness ==
    /\ Returned
    /\ Profits(metrics.trades) # {}
    /\ Losses(metrics.trades) # {}
    /\ metrics.profit_factor # Inf
    /\ RPos(metrics.profit_factor)

\* C20: Buy-and-Hold emits +1 on the first bar and 0 on every later bar of a
\* non-empty series, so a Buy-and-Hold run with positive capital and commission
\* rate < 1 records exactly one trade, entered on the first bar and
\* force-closed on the last.
C20_BuyAndHoldOneTrade ==
    /\ (strategy.kind = "BuyAndHold" /\ data # <<>> /\ pc # "start") =>
          /\ Len(df_signal) = Len(data)
          /\ \A t \in 1..Len(data) : df_signal[t] = (IF t = 1 THEN 1 ELSE 0)
    /\ (strategy.kind = "BuyAndHold" /\ Returned /\ RPos(self.initial_capital)
            /\ RLt(self.commission, R(1))) =>
          /\ Len(metrics.trades) = 1
          /\ metrics.trades[1].entry_date = 1
          /\ metrics.trades[1].exit_date = Len(data)
          /\ last.op = "_close_long"
          /\ last.date = Len(data)
          /\ last.ret

C20_Witness ==
    /\ strategy.kind = "BuyAndHold"
    /\ Returned
    /\ Len(data) = MaxBars
    /\ RPos(self.commission)
    /\ Len(metrics.trades) = 1
    /\ metrics.trades[1].exit_date = MaxBars

\* Equity point t is strictly below the running maximum of the curve up to t
InDrawdown(equity, t) == \E u \in 1..t : RLt(equity[t], equity[u])
\* Lengths of the contiguous runs of points in drawdown
DrawdownRuns(equity) ==
    {b - a + 1 : <<a, b>> \in
        {ab \in (1..Len(equity)) \X (1..Len(equity)) :
            ab[1] <= ab[2] /\ \A t \in ab[1]..ab[2] : InDrawdown(equity, t)}}

C28_LastEquityIsLiquidatedCash ==
    Returned => Last(metrics.equity_curve) = portfolio.current_capital

\* The entry commission of a recorded trade: the cash spent on the entry was
\* entry_price * shares + entry commission, the commission being
\* commission_rate times that cash
EntryCommission(t, rate) ==
    RDiv(RMul(RMul(t.entry_price, t.shares), rate), RSub(R(1), rate))
GrossPnls(trades) ==
    [k \in 1..Len(trades) |->
        RMul(RSub(trades[k].exit_price, trades[k].entry_price), trades[k].shares)]

\* C29: cash accounting is exact in every Flat state: cash = initial_capital -
\* total_commission_paid + sum over the recorded trades of
\* (exit_price - entry_price) * shares, where total_commission_paid counts the
\* entry and the exit commission of every trade while Trade.commission and
\* Trade.pnl include the exit commission only.
C29_CashAccounting ==
    LET p == portfolio
    IN p.position = Zero =>
        /\ p.current_capital =
              RAdd(RSub(p.initial_capital, p.total_commission_paid),
                   RSum(GrossPnls(p.trades)))
        /\ p.total_commission_paid =
              RSum([k \in 1..Len(p.trades) |->
                      RAdd(EntryCommission(p.trades[k], p.commission_rate),
                           p.trades[k].commission)])
        /\ \A k \in 1..Len(p.trades) :
              LET t == p.trades[k]
              IN /\ t.commission =
                       RMul(RMul(t.shares, t.exit_price), p.commission_rate)
                 /\ t.pnl = RSub(GrossPnls(p.trades)[k], t.commission)

C29_Witness ==
    /\ Returned
    /\ Len(portfolio.trades) = 2
    /\ RPos(portfolio.commission_rate)
    /\ portfolio.position = Zero
    /\ portfolio.current_capital # portfolio.initial_capital

-----------------------------------------------------------------------------
(* The Portfolio driven by a free sequence of its calls (SpecLedger) *)

Dates == {1, 2}

\* (commission, slippage) pairs of a Portfolio; with slippage 1 a sale fills
\* at price 0 and leaves the ledger Flat without cash
LedgerRates == Rates \cup {<<Zero, R(1)>>}

InitLedger ==
    \E r \in LedgerRates :
        /\ pc = "ledger"
        /\ self = Backtester(R(100), r[1], r[2])
        /\ data = <<>>
        /\ strategy = BuyAndHoldStrategy
        /\ df_signal = <<>>
        /\ i = 0
        /\ portfolio = Portfolio(R(100), r[1], r[2])
        /\ last = NoCall
        /\ opened = 0
        /\ metrics = NoMetrics
        /\ caller = NoCaller

LedgerExecuteTrade ==
    /\ pc = "ledger"
    /\ i < MaxCalls
    /\ \E date \in Dates, price \in Prices, signal \in Signals :
          LET r == ExecuteTrade(portfolio, date, R(price), signal)
          IN /\ portfolio' = r.p
             /\ last' = Call("execute_trade", date, price, signal, r.ret)
             /\ opened' = opened + (IF signal = 1 /\ r.ret THEN 1 ELSE 0)
    /\ i' = i + 1
    /\ UNCHANGED <<pc, data, strategy, df_signal, self, metrics, caller>>

LedgerUpdateEquityCurve ==
    /\ pc = "ledger"
    /\ i < MaxCalls
    /\ \E date \in Dates, price \in Prices :
          /\ portfolio' = UpdateEquityCurve(portfolio, date, R(price))
          /\ last' = Call("update_equity_curve", date, price, 0, FALSE)
    /\ i' = i + 1
    /\ UNCHANGED <<pc, data, strategy, df_signal, self, opened, metrics, caller>>

LedgerCloseLong ==
    /\ pc = "ledger"
    /\ i < MaxCalls
    /\ \E date \in Dates, price \in Prices :
          LET r == CloseLong(portfolio, date, R(price))
          IN /\ portfolio' = r.p
             /\ last' = Call("_close_long", date, price, 0, r.ret)
    /\ i' = i + 1
    /\ UNCHANGED <<pc, data, strategy, df_signal, self, opened, metrics, caller>>

NextLedger == LedgerExecuteTrade \/ LedgerUpdateEquityCurve \/ LedgerCloseLong

SpecLedger == InitLedger /\ [][NextLedger]_vars

LedgerFlat(p) ==
    /\ p.position = Zero
    /\ p.position_entry_price = Zero
    /\ p.position_entry_date = None

LedgerLong(p) ==
    /\ RPos(p.position)
    /\ p.current_capital = Zero
    /\ p.position_entry_date # None
    /\ RPos(p.position_entry_price)

BuyWhileLongChangesNothing ==
    (LedgerLong(portfolio) /\ last'.op = "execute_trade" /\ last'.signal = 1) =>
        /\ ~last'.ret
        /\ portfolio'.position = portfolio.position
        /\ portfolio'.position_entry_price = portfolio.position_entry_price
        /\ portfolio'.position_entry_date = portfolio.position_entry_date
        /\ portfolio'.trades = portfolio.trades

\* C5: after any sequence of execute_trade / update_equity_curve / _close_long
\* calls the ledger is Flat (no shares, entry price 0, entry date None) or Long
\* (shares > 0, cash 0, entry date and price set), never both or neither, and a
\* Buy received while Long changes neither shares, entry price nor entry date.
C5_FlatOrLongNoPyramiding ==
    /\ [](LedgerFlat(portfolio) # LedgerLong(portfolio))
    /\ [][BuyWhileLongChangesNothing]_vars

C5_Witness ==
    /\ LedgerLong(portfolio)
    /\ last.op = "execute_trade" /\ last.signal = 1 /\ ~last.ret
    /\ portfolio.equity_curve # <<>>

\* The step is execute_trade(date, price, signal) with the given signal
IsExecuteTrade(signal) == last'.op = "execute_trade" /\ last'.signal = signal

\* cash, position, entry fields, trade log and commission total are unchanged
LedgerUnchanged ==
    /\ portfolio'.current_capital = portfolio.current_capital
    /\ portfolio'.position = portfolio.position
    /\ portfolio'.position_entry_price = portfolio.position_entry_price
    /\ portfolio'.position_entry_date = portfolio.position_entry_date
    /\ portfolio'.trades = portfolio.trades
    /\ portfolio'.total_commission_paid = portfolio.total_commission_paid

BuyWhileFlat ==
    (IsExecuteTrade(1) /\ portfolio.position = Zero) =>
        LET cash == portfolio.current_capital
            fill == RMul(R(last'.price), RAdd(R(1), portfolio.slippage_rate))
            commission == RMul(cash, portfolio.commission_rate)
        IN IF RPos(cash) /\ RPos(RSub(cash, commission))
           THEN /\ last'.ret
                /\ portfolio'.position_entry_price = fill
                /\ portfolio'.position_entry_date = last'.date
                /\ portfolio'.total_commission_paid =
                      RAdd(portfolio.total_commission_paid, commission)
                /\ portfolio'.position = RDiv(RSub(cash, commission), fill)
                /\ portfolio'.current_capital = Zero
                /\ LedgerLong(portfolio')
                /\ portfolio'.trades = portfolio.trades
           ELSE ~last'.ret /\ LedgerUnchanged

\* C21: a Buy processed while Flat with cash > 0 fills at
\* price * (1 + slippage_rate), charges commission = cash * commission_rate,
\* sets shares = (cash - commission) / fill_price, sets cash to 0 and moves to
\* Long; if cash <= 0, or the commission leaves nothing to invest, the call
\* returns False and cash, position, entry fields, trade log and commission
\* total are unchanged.
C21_BuyWhileFlat == [][BuyWhileFlat]_vars

C21_Witness ==
    /\ last.op = "execute_trade" /\ last.signal = 1 /\ last.ret
    /\ RPos(portfolio.commission_rate) /\ RPos(portfolio.slippage_rate)
    /\ LedgerLong(portfolio)
    /\ portfolio.total_commission_paid = R(10)
    /\ portfolio.position_entry_price = RMul(R(last.price), Frac(11, 10))

SellWhileLong ==
    (IsExecuteTrade(-1) /\ RPos(portfolio.position)) =>
        LET exit == RMul(R(last'.price), RSub(R(1), portfolio.slippage_rate))
            entry == portfolio.position_entry_price
            shares == portfolio.position
            proceeds == RMul(shares, exit)
            exit_commission == RMul(proceeds, portfolio.commission_rate)
            pnl == RSub(RMul(RSub(exit, entry), shares), exit_commission)
            cost_basis == RMul(entry, shares)
            t == Last(portfolio'.trades)
        IN /\ last'.ret
           /\ portfolio'.current_capital = RSub(proceeds, exit_commission)
           /\ Len(portfolio'.trades) = Len(portfolio.trades) + 1
           /\ SubSeq(portfolio'.trades, 1, Len(portfolio.trades)) = portfolio.trades
           /\ t.entry_date = portfolio.position_entry_date
           /\ t.exit_date = last'.date
           /\ t.entry_price = entry /\ t.exit_price = exit /\ t.shares = shares
           /\ t.commission = exit_commission
           /\ t.pnl = pnl
           /\ t.return_pct = (IF RIsZero(cost_basis) THEN Zero
                              ELSE RMul(RDiv(pnl, cost_basis), R(100)))
           /\ LedgerFlat(portfolio')

\* C22: a Sell processed while Long fills at price * (1 - slippage_rate), sets
\* cash to proceeds - proceeds * commission_rate, appends exactly one Trade with
\* pnl = (exit - entry) * shares - exit_commission and
\* return_pct = pnl / (entry_price * shares) * 100 (0 when the cost basis is 0),
\* and moves to Flat with the entry fields cleared.
C22_SellWhileLong == [][SellWhileLong]_vars

C22_Witness ==
    /\ last.op = "execute_trade" /\ last.signal = -1 /\ last.ret
    /\ RPos(portfolio.commission_rate) /\ RPos(portfolio.slippage_rate)
    /\ Len(portfolio.trades) = 1
    /\ portfolio.trades[1].pnl # Zero
    /\ LedgerFlat(portfolio)

NoOpCall ==
    (/\ last'.op = "execute_trade"
     /\ \/ last'.signal = 0
        \/ last'.signal = 1 /\ RPos(portfolio.position)
        \/ last'.signal = -1 /\ portfolio.position = Zero) =>
        ~last'.ret /\ LedgerUnchanged

\* C23: execute_trade with Hold in any state, Buy while Long, or Sell while
\* Flat returns False and leaves cash, position, entry price, entry date, trade
\* log and total_commission_paid unchanged.
C23_NoOpCombinations == [][NoOpCall]_vars

C23_Witness ==
    /\ last.op = "execute_trade" /\ last.signal = 0 /\ ~last.ret
    /\ LedgerLong(portfolio)
    /\ i = MaxCalls

-----------------------------------------------------------------------------
(* A strategy applied to a bar series on its own (SpecSignals) *)

InitSignals ==
    \E closes \in SeriesUpTo(MaxSeries), st \in BuiltStrategies :
        /\ pc = "strategy"
        /\ self = Backtester(R(100), Zero, Zero)
        /\ data = closes
        /\ strategy = st
        /\ df_signal = <<>>
        /\ i = 1
        /\ portfolio = Portfolio(R(100), Zero, Zero)
        /\ last = NoCall
        /\ opened = 0
        /\ metrics = NoMetrics
        /\ caller = NoCaller

\* strategy.generate_signals(data)
ApplyGenerateSignals ==
    /\ pc = "strategy"
    /\ LET r == GenerateSignals(strategy, data)
       IN /\ pc' = IF r.raised THEN "raised" ELSE "signals"
          /\ df_signal' = r.signal
    /\ UNCHANGED <<data, strategy, i, self, portfolio, last, opened, metrics, caller>>

NextSignals == ApplyGenerateSignals

SpecSignals == InitSignals /\ [][NextSignals]_vars

-----------------------------------------------------------------------------
(* A strategy constructed from arbitrary arguments, then used (SpecConstruct) *)

InitConstruct ==
    \E closes \in SeriesUpTo(MaxBars), st \in StrategyRequests :
        /\ pc = "new"
        /\ self = Backtester(R(100), Zero, Zero)
        /\ data = closes
        /\ strategy = st
        /\ df_signal = <<>>
        /\ i = 1
        /\ portfolio = Portfolio(R(100), Zero, Zero)
        /\ last = NoCall
        /\ opened = 0
        /\ metrics = NoMetrics
        /\ caller = NoCaller

\* StrategyClass(**arguments)
Construct ==
    /\ pc = "new"
    /\ pc' = IF ConstructorRaises(strategy) THEN "param_error" ELSE "strategy"
    /\ UNCHANGED <<data, strategy, df_signal, i, self, portfolio, last, opened,
                   metrics, caller>>

NextConstruct == Construct \/ ApplyGenerateSignals

SpecConstruct == InitConstruct /\ [][NextConstruct]_vars

\* The arguments the claim lists as invalid
ListedInvalid(st) ==
    CASE st.kind = "MA" ->
            st.short_window <= 0 \/ st.long_window <= 0
                \/ st.short_window >= st.long_window
      [] st.kind = "RSI" ->
            st.period <= 0 \/ st.oversold <= 0 \/ st.oversold >= st.overbought
                \/ st.overbought >= 100
      [] st.kind = "MACD" ->
            st.fast_period <= 0 \/ st.slow_period <= 0 \/ st.signal_period <= 0
                \/ st.fast_period >= st.slow_period
      [] st.kind = "Bollinger" -> st.period <= 0 \/ ~RPos(st.num_std)
      [] st.kind = "MeanReversion" ->
            st.lookback_period <= 0 \/ ~RPos(st.entry_threshold)
      [] OTHER -> FALSE

\* C11: a strategy given invalid arguments (as listed per strategy) raises its
\* parameter error from the constructor, so generate_signals is never reached
\* with them; generate_signals raises no parameter error of its own (the only
\* exception it raises is Buy-and-Hold's on an empty series).
C11_InvalidParametersFailConstruction ==
    /\ (pc # "new" /\ ListedInvalid(strategy)) => pc = "param_error"
    /\ pc = "param_error" => (ConstructorRaises(strategy) /\ df_signal = <<>>)
    /\ pc = "raised" => (strategy.kind = "BuyAndHold" /\ data = <<>>)
    /\ pc = "signals" => Len(df_signal) = Len(data)

C11_Witness ==
    /\ pc = "param_error"
    /\ strategy.kind = "MA"
    /\ strategy.short_window = strategy.long_window
    /\ strategy.short_window > 0

RSIDone == pc = "signals" /\ strategy.kind = "RSI"
RSIAt(t) == RSI(data, t, strategy.period)
RSIBelow(t) == RSIAt(t) # NaN /\ RLt(RSIAt(t), R(strategy.oversold))
RSIAbove(t) == RSIAt(t) # NaN /\ RLt(R(strategy.overbought), RSIAt(t))

MADone == pc = "signals" /\ strategy.kind = "MA"
\* Both moving averages have a value on bar t
MADefined(t) == t >= strategy.short_window /\ t >= strategy.long_window
MeanOfLast(w, t) == RDiv(RSum([k \in 1..w |-> R(data[t - w + k])]), R(w))
ShortAboveLong(t) ==
    RLt(MeanOfLast(strategy.long_window, t), MeanOfLast(strategy.short_window, t))
GoldenCross(t) ==
    /\ t > 1 /\ MADefined(t - 1) /\ MADefined(t)
    /\ ~ShortAboveLong(t - 1) /\ ShortAboveLong(t)
DeathCross(t) ==
    /\ t > 1 /\ MADefined(t - 1) /\ MADefined(t)
    /\ ShortAboveLong(t - 1) /\ ~ShortAboveLong(t)

\* C16: MA Crossover emits +1 exactly on the bars where the short MA goes from
\* <= the long MA on the previous bar to > the long MA on this bar, -1 exactly
\* on the bars of the reverse transition and 0 on every other bar; a transition
\* is counted only between two bars on which both MAs are defined, so the first
\* bar on which both become defined is not by itself a golden cross.
C16_MACrossOnlyBetweenDefinedBars ==
    MADone =>
        \A t \in 1..Len(data) :
            /\ df_signal[t] = 1 <=> GoldenCross(t)
            /\ df_signal[t] = -1 <=> DeathCross(t)
            /\ df_signal[t] \in {-1, 0, 1}

\* The smoothed average loss of the RSI at bar t (NaN until the window is full)
AvgLossAt(t) ==
    LET down == [k \in 1..Len(data) |->
                    IF k = 1 THEN NaN
                    ELSE IF data[k] < data[k - 1] THEN R(data[k - 1] - data[k])
                    ELSE Zero]
    IN EwmMean(down, t, strategy.period)
ZeroLoss(t) == AvgLossAt(t) # NaN /\ RIsZero(AvgLossAt(t))

\* C17: on any bar where the smoothed average loss is exactly zero while the
\* smoothing window is full, the RSI is 100, so (overbought < 100) the strategy
\* treats the bar as overbought: it is in the overbought zone, and the first
\* such bar after a bar outside the zone carries the sell signal.
C17_ZeroLossIsRSI100 ==
    RSIDone =>
        \A t \in 1..Len(data) :
            ZeroLoss(t) =>
                /\ RSIAt(t) = R(100)
                /\ RSIAbove(t)
                /\ (t = 1 \/ ~RSIAbove(t - 1)) => df_signal[t] = -1

BollingerDone == pc = "signals" /\ strategy.kind = "Bollinger"
\* The bands have a value on bar t: the window is full and holds two bars or
\* more (the sample deviation of one bar is undefined)
BandsDefined(t) == t >= strategy.period /\ strategy.period >= 2
\* Squared width of half the band: (num_std * std)^2
HalfBandSquared(t) ==
    LET w == strategy.period
        mid == MeanOfLast(w, t)
        sq(k) == RMul(RSub(R(data[t - w + k]), mid), RSub(R(data[t - w + k]), mid))
    IN RMul(RMul(strategy.num_std, strategy.num_std),
            RDiv(RSum([k \in 1..w |-> sq(k)]), R(w - 1)))
\* close < mid - num_std * std, and close > mid + num_std * std
BelowLower(t) ==
    LET gap == RSub(MeanOfLast(strategy.period, t), R(data[t]))
    IN RPos(gap) /\ RLt(HalfBandSquared(t), RMul(gap, gap))
AboveUpper(t) ==
    LET gap == RSub(R(data[t]), MeanOfLast(strategy.period, t))
    IN RPos(gap) /\ RLt(HalfBandSquared(t), RMul(gap, gap))

SignalsDone == pc = "signals"
NonZeroBars == {t \in 1..Len(df_signal) : df_signal[t] # 0}

\* C25: for the edge-triggered strategies (MA Crossover and MACD) every signal
\* is in {-1, 0, +1}, and the non-zero signals of any series strictly alternate
\* between +1 and -1, the first of them being +1.
C25_EdgeSignalsAlternate ==
    (SignalsDone /\ strategy.kind \in {"MA", "MACD"}) =>
        /\ Len(df_signal) = Len(data)
        /\ \A t \in 1..Len(df_signal) : df_signal[t] \in {-1, 0, 1}
        /\ \A t \in NonZeroBars :
              IF \A u \in NonZeroBars : u >= t
              THEN df_signal[t] = 1
              ELSE LET prev == CHOOSE u \in NonZeroBars :
                                  u < t /\ \A v \in NonZeroBars : v < t => v <= u
                   IN df_signal[t] = -df_signal[prev]

C25_Witness ==
    /\ SignalsDone
    /\ strategy.kind = "MA"
    /\ \E a, b, c \in NonZeroBars :
          a < b /\ b < c /\ df_signal[a] = 1 /\ df_signal[b] = -1 /\ df_signal[c] = 1

\* The last w closes up to bar t are all equal (their deviation is 0)
FlatWindow(w, t) == \A k \in (t - w + 1)..t : data[k] = data[t]

\* The indicator of the strategy has no value on bar t
IndicatorUndefined(t) ==
    CASE strategy.kind = "MA" ->
            t < strategy.short_window \/ t < strategy.long_window
      [] strategy.kind = "RSI" -> t - 1 < strategy.period \/ RSIAt(t) = NaN
      [] strategy.kind = "Bollinger" -> t < strategy.period
      [] strategy.kind = "MeanReversion" ->
            t < strategy.lookback_period
                \/ FlatWindow(strategy.lookback_period, t)
      [] OTHER -> FALSE

\* C30: no strategy emits Buy or Sell on a bar where its indicator is
\* undefined: MA Crossover before both rolling means are available, RSI before
\* `period` observations or when RSI is undefined, Bollinger before the window
\* is full, Mean Reversion before the window is full or when the rolling
\* standard deviation is 0; on all such bars the signal is Hold.
C30_HoldWhereUndefined ==
    SignalsDone =>
        \A t \in 1..Len(data) : IndicatorUndefined(t) => df_signal[t] = 0

C30_Witness ==
    /\ SignalsDone
    /\ strategy.kind = "MeanReversion"
    /\ \E t, u \in 1..Len(data) :
          /\ t >= strategy.lookback_period /\ strategy.lookback_period >= 2
          /\ FlatWindow(strategy.lookback_period, t) /\ df_signal[t] = 0
          /\ u < t /\ df_signal[u] # 0

-----------------------------------------------------------------------------
(* Two calls of run() on one Backtester, interleaved step by step            *)
(* (SpecTwoRuns).  The locals of run() -- portfolio, df, the loop position,   *)
(* metrics -- exist once per call: here pc, strategy, df_signal, i, portfolio *)
(* and metrics hold one value per call; self and self.data are shared.        *)

MaxPairBars == 2
Runs == {1, 2}
PairPrices == {1, 2}
PairSeries == UNION {[1..k -> PairPrices] : k \in 0..MaxPairBars}
SweepStrategies ==
    {BuyAndHoldStrategy} \cup {st \in BuiltStrategies : st.kind \in {"MA", "RSI"}}

\* Mutant of the local `portfolio` of run(): one ledger for every call
LocalPortfolioShared(r) == 1

\* `portfolio = Portfolio(...)` is a local of run(): call r uses its own
LocalPortfolio(r) == r

InitTwoRuns ==
    \E closes \in PairSeries :
      \E st1 \in GivenStrategies(Len(closes)), st2 \in SweepStrategies :
        LET bt == Backtester(R(100), Frac(1, 10), Zero)
        IN /\ pc = <<"start", "start">>
           /\ self = bt
           /\ data = closes
           /\ strategy = <<st1, st2>>
           /\ df_signal = <<<<>>, <<>>>>
           /\ i = <<1, 1>>
           /\ portfolio = [r \in Runs |->
                  Portfolio(bt.initial_capital, bt.commission, bt.slippage)]
           /\ last = NoCall
           /\ opened = 0
           /\ metrics = <<NoMetrics, NoMetrics>>
           /\ caller = NoCaller

\* call r: df = strategy.generate_signals(self.data)
PairGenerateSignals(r) ==
    /\ pc[r] = "start"
    /\ LET g == GenerateSignals(strategy[r], data)
       IN /\ pc' = [pc EXCEPT ![r] = IF g.raised THEN "raised" ELSE "loop"]
          /\ df_signal' = [df_signal EXCEPT ![r] = g.signal]
    /\ UNCHANGED <<data, strategy, i, self, portfolio, last, opened, metrics, caller>>

\* call r: one iteration of the loop
PairBar(r) ==
    /\ pc[r] = "loop"
    /\ i[r] <= Len(data)
    /\ LET date == i[r]
           price == R(data[date])
           p == portfolio[LocalPortfolio(r)]
           e == ExecuteTrade(p, date, price, df_signal[r][date])
       IN portfolio' = [portfolio EXCEPT
                           ![LocalPortfolio(r)] = UpdateEquityCurve(e.p, date, price)]
    /\ i' = [i EXCEPT ![r] = i[r] + 1]
    /\ UNCHANGED <<pc, data, strategy, df_signal, self, last, opened, metrics, caller>>

\* call r: after the loop, close any open position at the last bar
PairForceClose(r) ==
    /\ pc[r] = "loop"
    /\ i[r] > Len(data)
    /\ LET p == portfolio[LocalPortfolio(r)]
       IN IF RPos(p.position)
          THEN portfolio' = [portfolio EXCEPT ![LocalPortfolio(r)] =
                                CloseLong(p, Len(data), R(data[Len(data)])).p]
          ELSE UNCHANGED portfolio
    /\ pc' = [pc EXCEPT ![r] = "metrics"]
    /\ UNCHANGED <<data, strategy, df_signal, i, self, last, opened, metrics, caller>>

\* call r: metrics = PerformanceMetrics(...); self.strategy_results = metrics;
\* return metrics
PairMetrics(r) ==
    /\ pc[r] = "metrics"
    /\ LET p == portfolio[LocalPortfolio(r)]
           m == PerformanceMetrics(GetEquityCurveDf(p), GetTradesDf(p),
                                   self.initial_capital)
       IN /\ metrics' = [metrics EXCEPT ![r] = m]
          /\ self' = [self EXCEPT !.strategy_results = m]
    /\ pc' = [pc EXCEPT ![r] = "done"]
    /\ UNCHANGED <<data, strategy, df_signal, i, portfolio, last, opened, caller>>

NextTwoRuns ==
    \E r \in Runs :
        \/ PairGenerateSignals(r)
        \/ PairBar(r)
        \/ PairForceClose(r)
        \/ PairMetrics(r)

SpecTwoRuns == InitTwoRuns /\ [][NextTwoRuns]_vars

\* The loop of run() from bar k on, on portfolio p
RECURSIVE FoldBars(_, _, _, _)
FoldBars(p, closes, signal, k) ==
    IF k > Len(closes) THEN p
    ELSE LET price == R(closes[k])
             e == ExecuteTrade(p, k, price, signal[k])
         IN FoldBars(UpdateEquityCurve(e.p, k, price), closes, signal, k + 1)

\* What run(st) returns when it is the only call (st does not raise)
RunAlone(bt, closes, st) ==
    LET signal == GenerateSignals(st, closes).signal
        p == FoldBars(Portfolio(bt.initial_capital, bt.commission, bt.slippage),
                      closes, signal, 1)
        q == IF RPos(p.position)
             THEN CloseLong(p, Len(closes), R(closes[Len(closes)])).p
             ELSE p
    IN PerformanceMetrics(GetEquityCurveDf(q), GetTradesDf(q), bt.initial_capital)

\* C15: runs share no mutable state: each folds over its own fresh Portfolio
\* and none modifies the bar series, so for two runs on one Backtester, in any
\* interleaving of their steps (one after the other included), the equity
\* curve, trade log and metrics each returns are those it returns alone.
C15_RunsAreIndependent ==
    /\ [](\A r \in Runs :
            /\ pc[r] = "done" => metrics[r] = RunAlone(self, data, strategy[r])
            /\ pc[r] = "raised" => GenerateSignals(strategy[r], data).raised)
    /\ [][data' = data]_vars

\* both calls returned, each with a trade and an equity curve of its own
C15_Witness ==
    /\ pc = <<"done", "done">>
    /\ Len(data) = MaxPairBars
    /\ Len(metrics[1].trades) = 1
    /\ Len(metrics[2].trades) = 1
    /\ metrics[1].equity_curve # metrics[2].equity_curve

-----------------------------------------------------------------------------
(* The public calls of one Backtester, one after the other (SpecBenchmark):  *)
(* run(strategy), run_benchmark(), compare_to_benchmark().  A call of run()   *)
(* proceeds by the steps of Spec; `caller` holds the calls in progress.       *)

NoStrategy == [kind |-> "none"]

\* The strategies the caller runs on a series of n bars
BenchStrategies(n) ==
    SweepStrategies
        \cup {[kind |-> "Given", signals |-> [t \in 1..n |-> sg]] : sg \in Signals}

InitBenchmark ==
    \E closes \in PairSeries :
        /\ pc = "idle"
        /\ self = Backtester(R(100), Frac(1, 10), Zero)
        /\ data = closes
        /\ strategy = NoStrategy
        /\ df_signal = <<>>
        /\ i = 1
        /\ portfolio = Portfolio(R(100), Frac(1, 10), Zero)
        /\ last = NoCall
        /\ opened = 0
        /\ metrics = NoMetrics
        /\ caller = NoCaller

\* run(st) is entered: its Portfolio is built, nothing else has happened
EnterRun(st) ==
    /\ pc' = "start"
    /\ strategy' = st
    /\ df_signal' = <<>>
    /\ i' = 1
    /\ portfolio' = Portfolio(self.initial_capital, self.commission, self.slippage)
    /\ last' = NoCall
    /\ opened' = 0
    /\ metrics' = NoMetrics
    /\ UNCHANGED <<data, self>>

\* f"{x:.2f}": two decimals
Format2(x) == Round(x, 2)

\* The table of compare_to_benchmark, by column; the values kept by class
\* keep their class
ComparisonTable(s, b) ==
    [Strategy |-> <<Format2(s.total_return), s.annualized_return, s.sharpe_ratio,
                    Format2(s.max_drawdown), Round(s.win_rate, 1), s.num_trades>>,
     BuyAndHold |-> <<Format2(b.total_return), b.annualized_return, b.sharpe_ratio,
                      Format2(b.max_drawdown), R(100), 1>>]

\* compare_to_benchmark once benchmark_results is there: the test of
\* strategy_results and the table
CompareToBenchmark(bt) ==
    IF bt.strategy_results = NoMetrics
    THEN [raised |-> "ValueError", ret |-> <<>>]
    ELSE [raised |-> "",
          ret |-> ComparisonTable(bt.strategy_results, bt.benchmark_results)]

\* the caller: backtester.run(st)
CallRun ==
    /\ pc = "idle"
    /\ caller.calls < MaxCalls
    /\ \E st \in BenchStrategies(Len(data)) : EnterRun(st)
    /\ caller' = [caller EXCEPT !.stack = <<"run">>, !.calls = @ + 1,
                                !.runs = @ + 1]

\* the caller: backtester.run_benchmark(), which calls run(BuyAndHoldStrategy())
CallRunBenchmark ==
    /\ pc = "idle"
    /\ caller.calls < MaxCalls
    /\ EnterRun(BuyAndHoldStrategy)
    /\ caller' = [caller EXCEPT !.stack = <<"run_benchmark">>, !.calls = @ + 1]

\* the caller: backtester.compare_to_benchmark(), which calls run_benchmark()
\* when benchmark_results is None
CallCompareToBenchmark ==
    /\ pc = "idle"
    /\ caller.calls < MaxCalls
    /\ IF self.benchmark_results = NoMetrics
       THEN /\ EnterRun(BuyAndHoldStrategy)
            /\ caller' = [caller EXCEPT
                             !.stack = <<"compare_to_benchmark", "run_benchmark">>,
                             !.calls = @ + 1]
       ELSE /\ caller' = [caller EXCEPT
                             !.calls = @ + 1,
                             !.op = "compare_to_benchmark",
                             !.raised = CompareToBenchmark(self).raised,
                             !.ret = CompareToBenchmark(self).ret]
            /\ UNCHANGED <<pc, data, strategy, df_signal, i, self, portfolio,
                           last, opened, metrics>>

\* run() returns its metrics, or its exception propagates, to the public call
\* that made it; run_benchmark stores the metrics in benchmark_results, and
\* compare_to_benchmark goes on to its test and table
ReturnFromRun ==
    /\ pc \in {"done", "raised"}
    /\ caller.stack # <<>>
    /\ pc' = "idle"
    /\ IF pc = "raised"
       THEN /\ caller' = [caller EXCEPT !.stack = <<>>, !.op = caller.stack[1],
                                        !.raised = "IndexError", !.ret = <<>>]
            /\ UNCHANGED self
       ELSE IF caller.stack = <<"run">>
       THEN /\ caller' = [caller EXCEPT !.stack = <<>>, !.op = "run",
                                        !.raised = "", !.ret = metrics,
                                        !.S = metrics]
            /\ UNCHANGED self
       ELSE /\ self' = [self EXCEPT !.benchmark_results = metrics]
            /\ caller' =
                  IF caller.stack = <<"run_benchmark">>
                  THEN [caller EXCEPT !.stack = <<>>, !.op = "run_benchmark",
                                      !.raised = "", !.ret = metrics]
                  ELSE [caller EXCEPT !.stack = <<>>,
                                      !.op = "compare_to_benchmark",
                                      !.raised = CompareToBenchmark(self').raised,
                                      !.ret = CompareToBenchmark(self').ret]
    /\ UNCHANGED <<data, strategy, df_signal, i, portfolio, last, opened, metrics>>

NextBenchmark ==
    \/ CallRun
    \/ CallRunBenchmark
    \/ CallCompareToBenchmark
    \/ RunGenerateSignals
    \/ RunBar
    \/ RunForceClose
    \/ RunMetrics
    \/ ReturnFromRun

SpecBenchmark == InitBenchmark /\ [][NextBenchmark]_vars

\* The 'Strategy' column that reports the metrics m
StrategyColumn(m) ==
    <<Round(m.total_return, 2), m.annualized_return, m.sharpe_ratio,
      Round(m.max_drawdown, 2), Round(m.win_rate, 1), m.num_trades>>

\* C26: after run(S) followed by run_benchmark() or compare_to_benchmark(),
\* Backtester.strategy_results still holds the metrics of S, so the 'Strategy'
\* column of compare_to_benchmark reports S and not the benchmark.
C26_StrategyResultsSurviveBenchmark ==
    (/\ caller.S # NoMetrics
     /\ caller.stack = <<>>
     /\ caller.op \in {"run_benchmark", "compare_to_benchmark"}
     /\ caller.raised = "") =>
        /\ self.strategy_results = caller.S
        /\ caller.op = "compare_to_benchmark" =>
              caller.ret.Strategy = StrategyColumn(caller.S)

\* C27: compare_to_benchmark on a Backtester on which run(strategy) has never
\* been called raises ValueError('Run strategy backtest first.') instead of
\* returning a comparison table.
C27_CompareBeforeRunRaises ==
    (caller.op = "compare_to_benchmark" /\ caller.runs = 0) =>
        caller.raised = "ValueError"


=============================================================================
